---- MODULE Spec2Model ----
(***************************************************************************)
(* A model of the Skribi front end: the declaration rules of the           *)
(* recursive-descent parser (parse/nodes/vars.rs), the line-oriented       *)
(* interpreter's variable declarations (interpret.rs,                      *)
(* interpret/variables.rs) and the lexer (tokens.rs).                      *)
(***************************************************************************)
EXTENDS Integers, Sequences, FiniteSets, TLC

VARIABLES
    tokens,     \* parser: the token queue (VecDeque<TokenContainer>)
    input,      \* parser: the queue as it was handed to the last rule called
    rule,       \* parser: the rule called last ("" before the first call)
    result,     \* parser: what that rule returned
    graph,      \* rendering: the lines pushed to the graph description
    id,         \* rendering: the block counter handed along (&mut usize)
    line,       \* interpreter: the words of the line being interpreted
    variables,  \* interpreter: HashMap<String, VariableStruct>
    scope_level,\* interpreter: the scope level the caller is at
    status,     \* interpreter: "ready", "ok", "error" (error() was called) or "panic"
    message,    \* interpreter: the message error() was called with
    op,         \* interpreter: the operation run last ("" before the first)
    file,       \* lexer: the characters of the source text
    pos,        \* lexer: how many characters the iterator file_ch has yielded
    current_ch, \* lexer: Option<char>, None as ""
    out,        \* lexer: the tokens pushed so far (the local `tokens` of tokenize)
    lex_line,   \* lexer: the local `line` of tokenize
    lex_status, \* lexer: "run", "done" (Ok(tokens) returned), "error" or "panic"
    lex_error,  \* lexer: the CustomError returned
    code,       \* main loop: the lines of the program (Vec<String>)
    line_number,\* main loop: the local `line_number`
    is_running, \* main loop: the local `is_running`
    interpreted,\* main loop: the numbers of the lines handed to interpret, in order
    main_status \* main loop: "idle", "start", "loop", "returned", "error" or "panic"

parseVars == <<tokens, input, rule, result, graph, id>>

interpVars == <<line, variables, scope_level, status, message, op>>

lexVars == <<file, pos, current_ch, out, lex_line, lex_status, lex_error>>

mainVars == <<code, line_number, is_running, interpreted, main_status>>

vars == <<parseVars, interpVars, lexVars, mainVars>>

\* The main loop at rest, while another part of the program runs.
MainIdle ==
    /\ code = <<>>
    /\ line_number = 0
    /\ is_running = FALSE
    /\ interpreted = <<>>
    /\ main_status = "idle"

(***************************************************************************)
(* Bounds of the model.                                                    *)
(***************************************************************************)
MaxTokens == 5

\* Longest line, in words.
MaxLine == 5

\* Deepest scope level.
MaxScope == 2

\* Most bindings the variable map holds.
MaxVars == 2

\* Longest source text, in characters (a string literal: after its opening
\* quote).
MaxSource == 4

\* Most tokens the lexer pushes before the model stops following it.
MaxOut == 7

\* Longest queue of an identifier chain, in tokens.
MaxChain == 7

\* All sequences over S of length 0..n.
RECURSIVE SeqsUpTo(_, _)
SeqsUpTo(S, n) ==
    IF n = 0 THEN {<<>>}
    ELSE LET shorter == SeqsUpTo(S, n - 1)
         IN  shorter \cup {Append(s, x) : s \in {t \in shorter : Len(t) = n - 1}, x \in S}

(***************************************************************************)
(* Tokens (tokens.rs, enum Token).  A token is a record with a type and,   *)
(* for the variants that carry one, a value.                               *)
(***************************************************************************)
KwGlobal   == [type |-> "KeywordModifier", val |-> "Global"]
KwPrivate  == [type |-> "KeywordModifier", val |-> "Private"]
KwConstant == [type |-> "KeywordModifier", val |-> "Constant"]
Identifier(name) == [type |-> "Identifier", val |-> name]
IntTok(n)  == [type |-> "Int", val |-> n]
LeftParenthesis  == [type |-> "LeftParenthesis"]
RightParenthesis == [type |-> "RightParenthesis"]

\* The identifiers the type registry knows (parse/nodes/classes.rs is not
\* part of the sources at hand: the built-in literal types of the
\* specification's glossary, and `dar`, which the tests of the id nodes use
\* as a registered name).
TypeRegistry == {"string", "int", "float", "bool", "null", "dar"}

is_type_def(identifier) == identifier \in TypeRegistry

\* The tokens the parser is run on: the three modifiers, a registered and an
\* unregistered identifier, a literal, and a parenthesis that opens an
\* expression no token of this set closes.
ParserTokens ==
    { KwGlobal, KwPrivate, KwConstant, Identifier("int"), Identifier("x"),
      IntTok(5), LeftParenthesis }

(***************************************************************************)
(* Results of a rule: ResultOption<T> together with the queue the rule     *)
(* leaves behind.  kind is "None" (Ok(None)), "Some" (Ok(Some(node))) or   *)
(* "Err" (Err(CustomError::UnexpectedToken(err))).                         *)
(***************************************************************************)
NoNode == [node |-> "None"]

OkNone(q)       == [kind |-> "None", node |-> NoNode, err |-> "", tokens |-> q]
OkSome(n, q)    == [kind |-> "Some", node |-> n, err |-> "", tokens |-> q]
Err(msg, q)     == [kind |-> "Err", node |-> NoNode, err |-> msg, tokens |-> q]

\* The parser at rest, while another part of the program runs.
ParseIdle ==
    /\ tokens = <<>>
    /\ input = <<>>
    /\ rule = ""
    /\ result = OkNone(<<>>)
    /\ graph = <<>>
    /\ id = 0

\* Exp::parse (parse/nodes/expressions.rs is not part of the sources at
\* hand).  A rule under the contract of the specification's section 4.3:
\* a literal is an expression, a parenthesis commits to "( Exp )", and
\* anything else is no-match with the queue untouched.
RECURSIVE Exp_parse(_)
Exp_parse(q) ==
    IF q = <<>> THEN OkNone(q)
    ELSE IF Head(q).type = "Int"
    THEN OkSome([node |-> "Exp", value |-> Head(q).val, paren |-> 0], Tail(q))
    ELSE IF Head(q).type = "LeftParenthesis"
    THEN LET inner == Exp_parse(Tail(q))
         IN  IF inner.kind = "Err" THEN inner
             ELSE IF inner.kind = "None"
             THEN Err("Expected an expression", inner.tokens)
             ELSE IF inner.tokens # <<>> /\ Head(inner.tokens).type = "RightParenthesis"
             THEN OkSome([inner.node EXCEPT !.paren = @ + 1], Tail(inner.tokens))
             ELSE Err("Expected a right parenthesis",
                      IF inner.tokens = <<>> THEN <<>> ELSE Tail(inner.tokens))
    ELSE OkNone(q)

\* parse_type with the front identifier popped before the registry is asked.
parse_type_pop_first(q) ==
    IF q # <<>> /\ Head(q).type = "Identifier"
    THEN IF is_type_def(Head(q).val)
         THEN OkSome([node |-> "Type", name |-> Head(q).val], Tail(q))
         ELSE OkNone(Tail(q))
    ELSE OkNone(q)

\* parse_type
parse_type(q) ==
    IF q # <<>> /\ Head(q).type = "Identifier" /\ is_type_def(Head(q).val)
    THEN OkSome([node |-> "Type", name |-> Head(q).val], Tail(q))
    ELSE OkNone(q)

\* Vd::parse reporting no-match, not an error, when the identifier is missing.
Vd_parse_soft(q) ==
    LET type_ == parse_type(q)
    IN  IF type_.kind = "None" THEN OkNone(type_.tokens)
        ELSE LET q1 == type_.tokens
             IN  IF q1 # <<>> /\ Head(q1).type = "Identifier"
                 THEN LET exp0 == Exp_parse(Tail(q1))
                      IN  IF exp0.kind = "Err" THEN exp0
                          ELSE IF exp0.kind = "Some"
                          THEN OkSome([node |-> "Vd", type_ |-> type_.node,
                                       identifier |-> Head(q1).val,
                                       exp |-> exp0.node], exp0.tokens)
                          ELSE Err("Expected an expression", exp0.tokens)
                 ELSE OkNone(IF q1 = <<>> THEN <<>> ELSE Tail(q1))

\* Vd::parse: <vd> ::= <type> T_IDENTIFIER <exp>
Vd_parse(q) ==
    LET type_ == parse_type(q)
    IN  IF type_.kind = "None" THEN OkNone(type_.tokens)
        ELSE LET q1 == type_.tokens
             IN  \* tokens.pop_front() removes the front token whatever it is
                 IF q1 # <<>> /\ Head(q1).type = "Identifier"
                 THEN LET exp0 == Exp_parse(Tail(q1))
                      IN  IF exp0.kind = "Err" THEN exp0
                          ELSE IF exp0.kind = "Some"
                          THEN OkSome([node |-> "Vd", type_ |-> type_.node,
                                       identifier |-> Head(q1).val,
                                       exp |-> exp0.node], exp0.tokens)
                          ELSE Err("Expected an expression", exp0.tokens)
                 ELSE Err("Expected an identifier",
                          IF q1 = <<>> THEN <<>> ELSE Tail(q1))

\* A modifier rule that falls back to no-match when no <vd> follows.
ModVar_parse_fallback(keyword, nodeName, q) ==
    IF q # <<>> /\ Head(q) = keyword
    THEN LET vd == Vd_parse(Tail(q))
         IN  IF vd.kind = "Some"
             THEN OkSome([node |-> nodeName, vd |-> vd.node], vd.tokens)
             ELSE IF vd.kind = "Err" THEN vd ELSE OkNone(vd.tokens)
    ELSE OkNone(q)

\* GlobalVar::parse and PrivateVar::parse share their shape:
\* <global_var> ::= fu <vd>, <private_var> ::= pu <vd>
ModVar_parse(keyword, nodeName, q) ==
    IF q # <<>> /\ Head(q) = keyword
    THEN LET vd == Vd_parse(Tail(q))
         IN  IF vd.kind = "Err" THEN vd
             ELSE IF vd.kind = "Some"
             THEN OkSome([node |-> nodeName, vd |-> vd.node], vd.tokens)
             ELSE Err("Expected a variable declaration", vd.tokens)
    ELSE OkNone(q)

\* GlobalVar::parse building the node of its sibling.
GlobalVar_parse_as_private(q) == ModVar_parse(KwGlobal, "PrivateVar", q)

\* GlobalVar::parse matching any modifier keyword, not only `fu`.
GlobalVar_parse_any_modifier(q) ==
    IF q # <<>> /\ Head(q).type = "KeywordModifier"
    THEN ModVar_parse(Head(q), "GlobalVar", q)
    ELSE OkNone(q)

GlobalVar_parse(q) == ModVar_parse(KwGlobal, "GlobalVar", q)

PrivateVar_parse(q) == ModVar_parse(KwPrivate, "PrivateVar", q)

\* An if-let / else-if-let chain over a list of alternatives (defined below,
\* after the rules it chains).
RECURSIVE FirstMatch(_, _)

\* The order ConstVar::parse tries the alternatives of its body in.
ConstVarOrder == <<"PrivateVar", "GlobalVar", "Vd">>

\* ConstVar::parse with the body's alternatives tried in the order `names`.
ConstVar_parse_in(names, q) ==
    IF q # <<>> /\ Head(q) = KwConstant
    THEN LET body == FirstMatch(names, Tail(q))
         IN  IF body.kind = "Err" THEN body
             ELSE IF body.kind = "Some"
             THEN OkSome([node |-> "ConstVar", inner |-> body.node], body.tokens)
             ELSE Err("Expected a variable declaration", body.tokens)
    ELSE OkNone(q)

\* ConstVar::parse that takes another ConstVar as its body too.
ConstVar_parse_nesting(q) ==
    ConstVar_parse_in(<<"ConstVar", "PrivateVar", "GlobalVar", "Vd">>, q)

\* ConstVar::parse: <const_var> ::= ju (<private_var> | <global_var> | <vd>)
ConstVar_parse(q) == ConstVar_parse_in(ConstVarOrder, q)

\* One alternative of a rule, by the name of its node.
Alternative(name, q) ==
    CASE name = "ConstVar"   -> ConstVar_parse(q)
      [] name = "PrivateVar" -> PrivateVar_parse(q)
      [] name = "GlobalVar"  -> GlobalVar_parse(q)
      [] name = "Vd"         -> Vd_parse(q)

\* The chain: the first alternative that does not return Ok(None) decides (an
\* Err leaves through `?`), and each later one runs on the queue the earlier
\* ones left.
FirstMatch(names, q) ==
    IF names = <<>> THEN OkNone(q)
    ELSE LET r == Alternative(Head(names), q)
         IN  IF r.kind # "None" THEN r
             ELSE FirstMatch(Tail(names), r.tokens)

\* The order VarDec::parse tries its alternatives in.
VarDecOrder == <<"ConstVar", "PrivateVar", "GlobalVar", "Vd">>

\* VarDec::parse with the alternatives tried in the order `names`.
VarDec_parse_in(names, q) ==
    LET first == FirstMatch(names, q)
    IN  IF first.kind = "Some"
        THEN OkSome([node |-> "VarDec", inner |-> first.node], first.tokens)
        ELSE first

\* VarDec::parse: <var_dec> ::= <const_var> | <private_var> | <global_var> | <vd>
VarDec_parse(q) == VarDec_parse_in(VarDecOrder, q)

\* VarMod::parse: <var_mod> ::= <exp>
VarMod_parse(q) ==
    LET exp0 == Exp_parse(q)
    IN  IF exp0.kind = "Err" THEN exp0
        ELSE IF exp0.kind = "Some"
        THEN OkSome([node |-> "VarMod", exp |-> exp0.node], exp0.tokens)
        ELSE OkNone(exp0.tokens)

(***************************************************************************)
(* Rendering (GraphDisplay): every implementation pushes lines to the      *)
(* graph description and hands the block counter along.  A line is         *)
(* "subgraph <name>_<id>[<label>]" or "end".                               *)
(***************************************************************************)
Subgraph(name, n, label) == [line |-> "subgraph", name |-> name, id |-> n, label |-> label]

End == [line |-> "end"]

Rendered(g, n) == [graph |-> g, id |-> n]

\* Exp::graph_display (parse/nodes/expressions.rs is not part of the sources
\* at hand): one numbered block per node, as the specification's section 4.3
\* has it for every node.
Exp_graph_display(n, g, i) ==
    Rendered(g \o <<Subgraph("Exp", i, <<"Exp">>), End>>, i + 1)

\* impl GraphDisplay for Type
Type_graph_display(n, g, i) ==
    Rendered(g \o <<Subgraph("CGet", i, <<"CGet", n.name>>), End>>, i + 1)

\* impl GraphDisplay for Vd: the type is rendered, the expression is not.
Vd_graph_display(n, g, i) ==
    LET type_ == Type_graph_display(n.type_, g \o <<Subgraph("Vd", i, <<"Vd", n.identifier>>)>>,
                                    i + 1)
    IN  Rendered(type_.graph \o <<End>>, type_.id)

\* impl GraphDisplay for GlobalVar
GlobalVar_graph_display(n, g, i) ==
    LET vd == Vd_graph_display(n.vd, g \o <<Subgraph("GlobalVar", i, <<"GlobalVar">>)>>, i + 1)
    IN  Rendered(vd.graph \o <<End>>, vd.id)

\* impl GraphDisplay for PrivateVar
PrivateVar_graph_display(n, g, i) ==
    LET vd == Vd_graph_display(n.vd, g \o <<Subgraph("PrivateVar", i, <<"PrivateVar">>)>>, i + 1)
    IN  Rendered(vd.graph \o <<End>>, vd.id)

\* impl GraphDisplay for ConstVar: the match on the variant it holds.
ConstVar_graph_display(n, g, i) ==
    LET g1    == g \o <<Subgraph("ConstVar", i, <<"ConstVar">>)>>
        inner == CASE n.inner.node = "Vd"         -> Vd_graph_display(n.inner, g1, i + 1)
                   [] n.inner.node = "GlobalVar"  -> GlobalVar_graph_display(n.inner, g1, i + 1)
                   [] n.inner.node = "PrivateVar" -> PrivateVar_graph_display(n.inner, g1, i + 1)
    IN  Rendered(inner.graph \o <<End>>, inner.id)

\* impl GraphDisplay for VarDec: the match on the variant it holds.
VarDec_graph_display(n, g, i) ==
    LET g1    == g \o <<Subgraph("VarDec", i, <<"VarDec">>)>>
        inner == CASE n.inner.node = "Vd"         -> Vd_graph_display(n.inner, g1, i + 1)
                   [] n.inner.node = "GlobalVar"  -> GlobalVar_graph_display(n.inner, g1, i + 1)
                   [] n.inner.node = "PrivateVar" -> PrivateVar_graph_display(n.inner, g1, i + 1)
                   [] n.inner.node = "ConstVar"   -> ConstVar_graph_display(n.inner, g1, i + 1)
    IN  Rendered(inner.graph \o <<End>>, inner.id)

\* impl GraphDisplay for VarMod: the counter is handed to the expression as
\* it came.
VarMod_graph_display(n, g, i) ==
    LET exp == Exp_graph_display(n.exp, g \o <<Subgraph("VarMod", i, <<"VarMod">>)>>, i)
    IN  Rendered(exp.graph \o <<End>>, exp.id)

\* node.graph_display(graph, id), by the type of the node.
graph_display(n, g, i) ==
    CASE n.node = "Type"       -> Type_graph_display(n, g, i)
      [] n.node = "Vd"         -> Vd_graph_display(n, g, i)
      [] n.node = "GlobalVar"  -> GlobalVar_graph_display(n, g, i)
      [] n.node = "PrivateVar" -> PrivateVar_graph_display(n, g, i)
      [] n.node = "ConstVar"   -> ConstVar_graph_display(n, g, i)
      [] n.node = "VarDec"     -> VarDec_graph_display(n, g, i)
      [] n.node = "VarMod"     -> VarMod_graph_display(n, g, i)

\* A rule of vars.rs, by name.
Rules == {"Type", "Vd", "GlobalVar", "PrivateVar", "ConstVar", "VarDec"}

(***************************************************************************)
(* The id nodes (parse/nodes/id_nodes.rs is not part of the sources at     *)
(* hand; its tests are).  The rules follow the grammar and the rule        *)
(* contract of the specification's section 4.3:                            *)
(*     IdGet ::= IDENTIFIER ':' (IdGet | CGet)      CGet ::= IDENTIFIER    *)
(* with one token of lookahead and no way back once a token is consumed.   *)
(***************************************************************************)
Inside == [type |-> "Inside"]

CGet(name) == [node |-> "CGet", name |-> name]

\* enum OpIn: the continuation of an IdGet and its tag.
OpIn(tag, n) == [tag |-> tag, node |-> n]

IdGet(identifier, op_in) ==
    [node |-> "IdGet", identifier |-> identifier, tuple |-> NoNode, op_in |-> op_in]

\* parse_cget that takes any identifier, registered or not.
parse_cget_any_identifier(q) ==
    IF q # <<>> /\ Head(q).type = "Identifier"
    THEN OkSome(CGet(Head(q).val), Tail(q))
    ELSE OkNone(q)

\* parse_cget: Option<CGet>, a leaf for a registered identifier.
parse_cget(q) ==
    IF q # <<>> /\ Head(q).type = "Identifier" /\ is_type_def(Head(q).val)
    THEN OkSome(CGet(Head(q).val), Tail(q))
    ELSE OkNone(q)

\* IdGet::parse that tags the leaf it ends in as another IdGet.
RECURSIVE IdGet_parse_one_tag(_)
IdGet_parse_one_tag(q) ==
    IF q = <<>> \/ Head(q).type # "Identifier" THEN OkNone(q)
    ELSE LET after == Tail(q)
         IN  IF after = <<>> \/ Head(after).type # "Inside"
             THEN Err("Expected an id get or a c get", after)
             ELSE LET rest == Tail(after)
                      leaf == parse_cget(rest)
                      hop  == IdGet_parse_one_tag(rest)
                  IN  IF leaf.kind = "Some"
                      THEN OkSome(IdGet(Head(q).val, OpIn("IdGet", leaf.node)), leaf.tokens)
                      ELSE IF hop.kind = "Err" THEN hop
                      ELSE IF hop.kind = "None"
                      THEN Err("Expected an id get or a c get", hop.tokens)
                      ELSE OkSome(IdGet(Head(q).val, OpIn("IdGet", hop.node)), hop.tokens)

\* IdGet::parse.  The front identifier and the ':' after it are consumed;
\* the one token then in front decides the continuation: a registered
\* identifier is the CGet leaf, any other starts the next hop.
RECURSIVE IdGet_parse(_)
IdGet_parse(q) ==
    IF q = <<>> \/ Head(q).type # "Identifier" THEN OkNone(q)
    ELSE LET after == Tail(q)
         IN  IF after = <<>> \/ Head(after).type # "Inside"
             THEN Err("Expected an id get or a c get", after)
             ELSE LET rest == Tail(after)
                      leaf == parse_cget(rest)
                      hop  == IdGet_parse(rest)
                  IN  IF leaf.kind = "Some"
                      THEN OkSome(IdGet(Head(q).val, OpIn("CGet", leaf.node)), leaf.tokens)
                      ELSE IF hop.kind = "Err" THEN hop
                      ELSE IF hop.kind = "None"
                      THEN Err("Expected an id get or a c get", hop.tokens)
                      ELSE OkSome(IdGet(Head(q).val, OpIn("IdGet", hop.node)), hop.tokens)

\* The tokens the id rules are run on: a registered and an unregistered
\* identifier, and the ':'.
IdTokens == {Identifier("dar"), Identifier("hello"), Inside}

(***************************************************************************)
(* The line-oriented interpreter (interpret.rs, interpret/variables.rs).   *)
(***************************************************************************)

\* enum VariableType
StringValue(s)  == [type |-> "String", val |-> s]
IntegerValue(n) == [type |-> "Integer", val |-> n]
FloatValue(x)   == [type |-> "Float", val |-> x]
BooleanValue(b) == [type |-> "Boolean", val |-> b]
NullValue       == [type |-> "Null"]

\* VariableStruct::new
VariableStruct(name, value, level, is_constant) ==
    [name |-> name, value |-> value, scope_level |-> level, is_constant |-> is_constant]

NoVariable == [name |-> ""]

\* HashMap::new()
EmptyMap == [n \in {} |-> NoVariable]

\* HashMap::insert
Insert(map, key, value) ==
    [n \in DOMAIN map \cup {key} |-> IF n = key THEN value ELSE map[n]]

\* What a call that can end the program leaves: kind is "ok", "error" (the
\* call went through error(msg)) or "panic" (an index out of range or an
\* unwrap of a failed parse).
Returned(v)  == [kind |-> "ok", msg |-> <<>>, var |-> v]
Panicked     == [kind |-> "panic", msg |-> <<>>, var |-> NoVariable]

\* error() of the crate root (not part of the sources at hand): it reports
\* the message and ends the program, so nothing after the call runs.
error(msg) == [kind |-> "error", msg |-> msg, var |-> NoVariable]

\* str::parse::<i32>() on the words of the model: the value, or -1 for Err.
ParseI32(word) ==
    CASE word = "5" -> 5
      [] word = "7" -> 7
      [] OTHER      -> -1

\* str::parse::<f32>() on the words of the model: the value, or -1 for Err.
ParseF32(word) ==
    CASE word = "5" -> 5
      [] word = "7" -> 7
      [] OTHER      -> -1

\* str::parse::<bool>(): "true", "false", or "" for Err.
ParseBool(word) == IF word \in {"true", "false"} THEN word ELSE ""

\* The match of new_variable on line[i]: the typed value of the payload
\* line[i + 2].  Rust indexes from 0: line[k] is words[k + 1].
TypedValue(words, i) ==
    LET type_   == words[i + 1]
        has     == Len(words) >= i + 3
        payload == words[i + 3]
    IN  CASE type_ = "string" -> IF has THEN Returned(StringValue(payload)) ELSE Panicked
          [] type_ = "int"    -> IF has /\ ParseI32(payload) # -1
                                 THEN Returned(IntegerValue(ParseI32(payload)))
                                 ELSE Panicked
          [] type_ = "float"  -> IF has /\ ParseF32(payload) # -1
                                 THEN Returned(FloatValue(ParseF32(payload)))
                                 ELSE Panicked
          [] type_ = "bool"   -> IF has /\ ParseBool(payload) # ""
                                 THEN Returned(BooleanValue(ParseBool(payload)))
                                 ELSE Panicked
          [] type_ = "null"   -> Returned(NullValue)
          [] OTHER            -> error(<<"Unknown variable type">>)

Count(b) == IF b THEN 1 ELSE 0

\* new_variable that files every binding under the caller's scope level.
new_variable_keeps_level(words, level) ==
    IF Len(words) < 2 THEN Panicked
    ELSE
    LET args        == {words[1], words[2]}
        is_private  == "pu" \in args
        is_global   == "fu" \in args
        is_constant == "ju" \in args
        i           == Count(is_private) + Count(is_global) + Count(is_constant)
    IN  IF is_global /\ is_private
        THEN error(<<"Variable cannot be both global and private">>)
        ELSE IF words[1] = words[2]
        THEN error(<<"Syntax error: to many ", words[1], " in variable declaration">>)
        ELSE IF Len(words) < i + 1 THEN Panicked
        ELSE LET var == TypedValue(words, i)
             IN  IF var.kind # "ok" THEN var
                 ELSE IF Len(words) < i + 2 THEN Panicked
                 ELSE Returned(VariableStruct(words[i + 2], var.var, level, is_constant))

\* new_variable
new_variable(words, level) ==
    IF Len(words) < 2 THEN Panicked      \* line[0..2]
    ELSE
    LET args        == {words[1], words[2]}
        is_private  == "pu" \in args
        is_global   == "fu" \in args
        is_constant == "ju" \in args
        i           == Count(is_private) + Count(is_global) + Count(is_constant)
    IN  IF is_global /\ is_private
        THEN error(<<"Variable cannot be both global and private">>)
        ELSE IF words[1] = words[2]
        THEN error(<<"Syntax error: to many ", words[1], " in variable declaration">>)
        ELSE IF Len(words) < i + 1 THEN Panicked      \* line[i]
        ELSE LET var == TypedValue(words, i)
             IN  IF var.kind # "ok" THEN var
                 ELSE IF Len(words) < i + 2 THEN Panicked      \* line[i + 1]
                 ELSE Returned(VariableStruct(words[i + 2], var.var,
                                              IF is_global THEN 0 ELSE level,
                                              is_constant))

\* What a call on the variable map leaves.
MapResult(kind, msg, map) == [kind |-> kind, msg |-> msg, variables |-> map]

\* create_variable, from what new_variable returned, without the test for a
\* binding of the same name.
create_variable_overwriting(temp, map) ==
    IF temp.kind # "ok" THEN MapResult(temp.kind, temp.msg, map)
    ELSE MapResult("ok", <<>>, Insert(map, temp.var.name, temp.var))

\* create_variable, from what new_variable returned.
create_variable_from(temp, map) ==
    IF temp.kind # "ok" THEN MapResult(temp.kind, temp.msg, map)
    ELSE IF temp.var.name \in DOMAIN map      \* variables.contains_key(&name)
    THEN MapResult("error", <<"Variable ", temp.var.name, " already exists">>, map)
    ELSE MapResult("ok", <<>>, Insert(map, temp.var.name, temp.var))

\* create_variable
create_variable(words, map, level) ==
    create_variable_from(new_variable(words, level), map)

\* is_variable_type (not part of the sources at hand): the literal types.
is_variable_type(word) == word \in {"string", "int", "float", "bool", "null"}

\* interpret: the scope level is the constant 1.
interpret(words, map) ==
    IF words = <<>> THEN MapResult("panic", <<>>, map)      \* line[0]
    ELSE IF words[1] \in {"pu", "fu", "ju"} \/ is_variable_type(words[1])
    THEN create_variable(words, map, 1)
    ELSE MapResult("error", <<"Unknown command on line ">>, map)

\* VariableStruct::set_value without the test of the constant flag.
set_value_unchecked(var, value) == Returned([var EXCEPT !.value = value])

\* VariableStruct::set_value
set_value(var, value) ==
    IF var.is_constant
    THEN error(<<"Cannot redefine value of constant">>)
    ELSE Returned([var EXCEPT !.value = value])

\* The words of the lines, and the lines.
Words == {"fu", "pu", "ju", "int", "x", "5"}

Lines == SeqsUpTo(Words, MaxLine)

\* The lines that have the form of a declaration: modifiers, then a type, a
\* name and a payload, in any order and number.
Modifiers == {"fu", "pu", "ju"}

Declarations ==
    {head \o rest : head \in SeqsUpTo(Modifiers, MaxLine - 2),
                    rest \in SeqsUpTo({"int", "x", "5", "fu"}, MaxLine - 2)}

ScopeLevels == 0..MaxScope

\* The value set_value is called with: of another type than the values the
\* lines declare.
Values == {StringValue("a")}

\* What new_variable returns on the declarations, per scope level of the
\* caller.
NewVariableResults ==
    [level \in 0..(MaxScope + 1) |-> {new_variable(words, level) : words \in Declarations}]

\* Leaving scope level n and taking the bindings of the levels below along.
exit_scope_and_below(map, n) ==
    [name \in {k \in DOMAIN map : map[k].scope_level > n} |-> map[name]]

\* Leaving scope level n (no code of the sources at hand does it; the
\* specification's section 4.4): the bindings of level n go.
exit_scope(map, n) ==
    [name \in {k \in DOMAIN map : map[k].scope_level # n} |-> map[name]]

InterpIdle ==
    /\ line = <<>>
    /\ variables = EmptyMap
    /\ scope_level = 0
    /\ status = "ready"
    /\ message = <<>>
    /\ op = ""

(***************************************************************************)
(* The lexer (tokens.rs).  A character is a string: itself for a printable *)
(* character, and a name for a control character.  None is "".             *)
(***************************************************************************)
DQ  == "\""
BS  == "\\"
LF  == "LF"
TAB == "TAB"
CR  == "CR"
NUL == "NUL"
None == ""

\* char::is_alphabetic, char::is_numeric and char::is_alphanumeric on the
\* characters of the model.
Letters == {"a", "b", "f", "i", "j", "n", "o", "p", "r", "t", "u", "x"}

Digits == {"0", "1", "2", "3", "4", "5", "6", "7", "8", "9"}

is_alphabetic(ch) == ch \in Letters

is_numeric(ch) == ch \in Digits

is_alphanumeric(ch) == is_alphabetic(ch) \/ is_numeric(ch)

\* Chars::next() on the text f after p characters: the character and the
\* iterator's new place.  An exhausted iterator keeps returning None.
NextCh(f, p) ==
    IF p < Len(f) THEN [ch |-> f[p + 1], pos |-> p + 1]
    ELSE [ch |-> None, pos |-> p]

\* The tokens the lexer makes.
StringTok(res) == [type |-> "String", val |-> res]
FloatTok(res)  == [type |-> "Float", val |-> res]
BoolTok(b)     == [type |-> "Bool", val |-> b]
InvalidTok(ch) == [type |-> "Invalid", val |-> ch]
NewLineTok     == [type |-> "Space", val |-> "NewLine"]
Simple(name)   == [type |-> name]

\* TokenContainer
TokenContainer(token, l, column) == [token |-> token, line |-> l, column |-> column]

\* What a scan returns: Ok((token, Option<char>)) with the iterator's new
\* place, or Err(error).
Scanned(token, ch, p) == [kind |-> "Ok", token |-> token, ch |-> ch, pos |-> p,
                          error |-> <<>>]
ScanFailed(e, p)      == [kind |-> "Err", token |-> Simple("None"), ch |-> None,
                          pos |-> p, error |-> e]

\* A scan that panics (an unwrap of an Err) returns nothing.
ScanPanicked(p)       == [kind |-> "Panic", token |-> Simple("None"), ch |-> None,
                          pos |-> p, error |-> <<>>]

InvalidString(l) == <<"InvalidString", "String not closed", l>>
InvalidFloat(l)  == <<"InvalidFloat", "A float can have only one . !", l>>

\* The escapes of tokenize_string with `0` left out.
Escape_without_nul(ch) ==
    CASE ch = "n" -> LF
      [] ch = "t" -> TAB
      [] ch = "r" -> CR
      [] OTHER    -> ch

\* The character an escaped character stands for (the match of
\* tokenize_string).
Escape(ch) ==
    CASE ch = "n" -> LF
      [] ch = "t" -> TAB
      [] ch = "r" -> CR
      [] ch = "0" -> NUL
      [] OTHER    -> ch

\* The while loop of tokenize_string: c is current_ch, p the iterator's
\* place, string_escape and res the locals.
RECURSIVE StringLoop(_, _, _, _, _, _)
StringLoop(f, c, p, string_escape, res, l) ==
    IF c = None THEN ScanFailed(InvalidString(l), p)
    ELSE IF string_escape
    THEN LET n == NextCh(f, p)
         IN  StringLoop(f, n.ch, n.pos, FALSE, Append(res, Escape(c)), l)
    ELSE IF c = BS
    THEN LET n == NextCh(f, p)
         IN  StringLoop(f, n.ch, n.pos, TRUE, res, l)
    ELSE IF c = DQ
    THEN Scanned(StringTok(res), None, p)
    ELSE LET n == NextCh(f, p)
         IN  StringLoop(f, n.ch, n.pos, FALSE, Append(res, c), l)

\* tokenize_string, called with the iterator after the opening quote.
tokenize_string(f, p, l) ==
    LET first == NextCh(f, p)
    IN  StringLoop(f, first.ch, first.pos, FALSE, <<>>, l)

DigitValue(ch) == CHOOSE d \in 0..9 : ToString(d) = ch

\* The value of a run of digits.
RECURSIVE DecimalValue(_)
DecimalValue(digits) ==
    IF digits = <<>> THEN 0
    ELSE 10 * DecimalValue(SubSeq(digits, 1, Len(digits) - 1))
         + DigitValue(digits[Len(digits)])

\* u32::MAX, 4294967295, digit by digit.
U32MaxDigits == <<4, 2, 9, 4, 9, 6, 7, 2, 9, 5>>

RECURSIVE StripZeros(_)
StripZeros(digits) ==
    IF Len(digits) > 1 /\ Head(digits) = "0" THEN StripZeros(Tail(digits)) ELSE digits

\* Whether a run of digits denotes a value above u32::MAX.
AboveU32(digits) ==
    LET d == StripZeros(digits)
        n == Len(U32MaxDigits)
    IN  \/ Len(d) > n
        \/ /\ Len(d) = n
           /\ \E k \in 1..n :
                 /\ DigitValue(d[k]) > U32MaxDigits[k]
                 /\ \A j \in 1..(k - 1) : DigitValue(d[j]) = U32MaxDigits[j]

\* The token a number scan ends with: res.parse().unwrap() as f32 or as u32.
\* A float keeps its text.
NumberToken(res, is_float) ==
    IF is_float THEN FloatTok(res) ELSE IntTok(DecimalValue(res))

\* The end of a number scan: Ok((token, current_ch)), or the panic of
\* res.parse::<u32>().unwrap() on a run of digits above u32::MAX
\* (str::parse::<f32>() takes every text of digits with one dot).
NumberEnd(res, is_float, c, p) ==
    IF ~ is_float /\ AboveU32(res) THEN ScanPanicked(p)
    ELSE Scanned(NumberToken(res, is_float), c, p)

\* The while loop of tokenize_number.
RECURSIVE NumberLoop(_, _, _, _, _, _)
NumberLoop(f, c, p, res, is_float, l) ==
    IF c = None THEN NumberEnd(res, is_float, None, p)
    ELSE IF c = "."
    THEN IF is_float THEN ScanFailed(InvalidFloat(l), p)
         ELSE LET n == NextCh(f, p)
              IN  NumberLoop(f, n.ch, n.pos, Append(res, c), TRUE, l)
    ELSE IF is_numeric(c)
    THEN LET n == NextCh(f, p)
         IN  NumberLoop(f, n.ch, n.pos, Append(res, c), is_float, l)
    ELSE NumberEnd(res, is_float, c, p)

\* tokenize_number
tokenize_number(f, p, l, first_char) ==
    LET first == NextCh(f, p)
    IN  NumberLoop(f, first.ch, first.pos, <<first_char>>, FALSE, l)

\* word_to_token that looks at how the word starts: `res.starts_with("fu")`
\* and so on for the modifiers, the whole word for the rest of the table.
word_to_token_by_prefix(res) ==
    CASE Len(res) >= 2 /\ SubSeq(res, 1, 2) = <<"f", "u">> -> KwGlobal
      [] Len(res) >= 2 /\ SubSeq(res, 1, 2) = <<"j", "u">> -> KwConstant
      [] Len(res) >= 2 /\ SubSeq(res, 1, 2) = <<"p", "u">> -> KwPrivate
      [] res = <<"i", "j">> -> Simple("KeywordIf")
      [] res = <<"s", "u", "l", "a">> -> Simple("KeywordElse")
      [] res = <<"s", "k", "r", "_", "a", "p", "p">> -> Simple("NatCall")
      [] res = <<"i", "o">> -> BoolTok(TRUE)
      [] res = <<"n", "o">> -> BoolTok(FALSE)
      [] res = <<"u", "m", "s">> -> Simple("KeywordFunction")
      [] res = <<"k", "a", "t">> -> Simple("KeywordClass")
      [] res = <<"e", "i">> -> Simple("KeywordReturn")
      [] res = <<"b", "i", "u", "l", "i">> -> Simple("KeywordBubbleScope")
      [] res = <<"k", "o", "d", "i">> -> Simple("KeywordSimpleScope")
      [] res = <<"s", "p", "o", "k", "i">> -> Simple("KeywordUnusedScope")
      [] OTHER -> Identifier(res)

\* word_to_token
word_to_token(res) ==
    CASE res = <<"f", "u">> -> KwGlobal
      [] res = <<"j", "u">> -> KwConstant
      [] res = <<"p", "u">> -> KwPrivate
      [] res = <<"i", "j">> -> Simple("KeywordIf")
      [] res = <<"s", "u", "l", "a">> -> Simple("KeywordElse")
      [] res = <<"s", "k", "r", "_", "a", "p", "p">> -> Simple("NatCall")
      [] res = <<"i", "o">> -> BoolTok(TRUE)
      [] res = <<"n", "o">> -> BoolTok(FALSE)
      [] res = <<"u", "m", "s">> -> Simple("KeywordFunction")
      [] res = <<"k", "a", "t">> -> Simple("KeywordClass")
      [] res = <<"e", "i">> -> Simple("KeywordReturn")
      [] res = <<"b", "i", "u", "l", "i">> -> Simple("KeywordBubbleScope")
      [] res = <<"k", "o", "d", "i">> -> Simple("KeywordSimpleScope")
      [] res = <<"s", "p", "o", "k", "i">> -> Simple("KeywordUnusedScope")
      [] OTHER -> Identifier(res)

\* The while loop of tokenize_word.
RECURSIVE WordLoop(_, _, _, _)
WordLoop(f, c, p, res) ==
    IF c = None THEN Scanned(word_to_token(res), None, p)
    ELSE IF is_alphanumeric(c) \/ c = "_"
    THEN LET n == NextCh(f, p)
         IN  WordLoop(f, n.ch, n.pos, Append(res, c))
    ELSE Scanned(word_to_token(res), c, p)

\* tokenize_word
tokenize_word(f, p, first_char) ==
    LET first == NextCh(f, p)
    IN  WordLoop(f, first.ch, first.pos, <<first_char>>)

\* tokenize_comment_classic that stops in front of the newline and leaves it
\* to the caller.
RECURSIVE tokenize_comment_keeps_newline(_, _)
tokenize_comment_keeps_newline(f, p) ==
    LET n == NextCh(f, p)
    IN  IF n.ch = None THEN n.pos
        ELSE IF n.ch = LF THEN p
        ELSE tokenize_comment_keeps_newline(f, n.pos)

\* tokenize_comment_classic: the iterator's place after the comment, which
\* ends with the first newline (consumed) or with the text.
RECURSIVE tokenize_comment_classic(_, _)
tokenize_comment_classic(f, p) ==
    LET n == NextCh(f, p)
    IN  IF n.ch = None \/ n.ch = LF THEN n.pos
        ELSE tokenize_comment_classic(f, n.pos)

\* The characters of the source texts, those of the string literals, and the
\* source texts: any text of the first, and a quote followed by any text of
\* the second.
SourceChars == {DQ, BS, "n", "0", "/", ".", LF}

StringChars == {DQ, BS, "n", "t", "r", "0", "a"}

Sources == SeqsUpTo(SourceChars, MaxSource)

StringSources == {<<DQ>> \o body : body \in SeqsUpTo(StringChars, MaxSource)}

LexIdle ==
    /\ file = <<>>
    /\ pos = 0
    /\ current_ch = None
    /\ out = <<>>
    /\ lex_line = 1
    /\ lex_status = "idle"
    /\ lex_error = <<>>

\* tokenize, up to its loop.
LexInit ==
    /\ \/ file \in Sources
       \/ file \in StringSources
    /\ pos = NextCh(file, 0).pos
    /\ current_ch = NextCh(file, 0).ch
    /\ out = <<>>
    /\ lex_line = 1
    /\ lex_status = "run"
    /\ lex_error = <<>>
    /\ ParseIdle
    /\ InterpIdle
    /\ MainIdle

\* One turn of the loop of tokenize leaves: the tokens, the line, current_ch,
\* the iterator's place, and the error if the turn returned one.
Turn(tokens_, l, ch, p) ==
    [tokens |-> tokens_, line |-> l, ch |-> ch, pos |-> p, error |-> <<>>,
     panic |-> FALSE]

TurnFailed(e) ==
    [tokens |-> <<>>, line |-> 0, ch |-> None, pos |-> 0, error |-> e,
     panic |-> FALSE]

\* The turn panicked: tokenize returns nothing.
TurnPanicked ==
    [tokens |-> <<>>, line |-> 0, ch |-> None, pos |-> 0, error |-> <<>>,
     panic |-> TRUE]

Push(tokens_, token, l) == Append(tokens_, TokenContainer(token, l, 0))

\* The match on one character with `_ => Token::Invalid(String::new())`.
symbol_token_without_char(ch) ==
    CASE ch = "+" -> Simple("Add")
      [] ch = "-" -> Simple("Sub")
      [] ch = "*" -> Simple("Mul")
      [] ch = ":" -> Inside
      [] ch = "(" -> LeftParenthesis
      [] ch = ")" -> RightParenthesis
      [] ch = "{" -> Simple("LeftBrace")
      [] ch = "}" -> Simple("RightBrace")
      [] OTHER    -> InvalidTok("")

\* The match of tokenize on one character, for the arms that neither scan
\* on nor touch the line.
symbol_token(ch) ==
    CASE ch = "+" -> Simple("Add")
      [] ch = "-" -> Simple("Sub")
      [] ch = "*" -> Simple("Mul")
      [] ch = ":" -> Inside
      [] ch = "(" -> LeftParenthesis
      [] ch = ")" -> RightParenthesis
      [] ch = "{" -> Simple("LeftBrace")
      [] ch = "}" -> Simple("RightBrace")
      [] OTHER    -> InvalidTok(ch)

\* The body of the loop of tokenize, on the character ch.
LoopBody(f, tokens_, l, ch, p) ==
    IF ch = "/"
    THEN LET n == NextCh(f, p)
         IN  IF n.ch # None
             THEN IF n.ch = "/"
                  THEN LET after == tokenize_comment_classic(f, n.pos)
                           m     == NextCh(f, after)
                       IN  Turn(Push(tokens_, NewLineTok, l), l, m.ch, m.pos)
                  ELSE Turn(Push(tokens_, Simple("Div"), l), l, n.ch, n.pos)
             ELSE \* current_ch keeps the '/'
                  Turn(Push(tokens_, Simple("Div"), l), l, ch, n.pos)
    ELSE IF is_alphabetic(ch) \/ ch = "_"
    THEN LET token == tokenize_word(f, p, ch)
         IN  Turn(Push(tokens_, token.token, l), l, token.ch, token.pos)
    ELSE IF is_numeric(ch)
    THEN LET token == tokenize_number(f, p, l, ch)
         IN  IF token.kind = "Panic" THEN TurnPanicked
             ELSE IF token.kind = "Err" THEN TurnFailed(token.error)
             ELSE Turn(Push(tokens_, token.token, l), l, token.ch, token.pos)
    ELSE IF ch = " "
    THEN LET n == NextCh(f, p) IN Turn(tokens_, l, n.ch, n.pos)
    ELSE IF ch = DQ
    THEN LET token == tokenize_string(f, p, l)
             n     == NextCh(f, token.pos)
         IN  IF token.kind = "Err" THEN TurnFailed(token.error)
             ELSE Turn(Push(tokens_, token.token, l), l, n.ch, n.pos)
    ELSE IF ch = LF
    THEN \* the token is built before the field `line` is read: line += 1
         \* has happened when the container takes the line
         LET n == NextCh(f, p)
         IN  Turn(Push(tokens_, NewLineTok, l + 1), l + 1, n.ch, n.pos)
    ELSE LET n == NextCh(f, p)
         IN  Turn(Push(tokens_, symbol_token(ch), l), l, n.ch, n.pos)

\* One turn of `while let Some(ch) = current_ch`.
TokenizeStep ==
    /\ lex_status = "run"
    /\ current_ch # None
    /\ Len(out) < MaxOut
    /\ LET turn == LoopBody(file, out, lex_line, current_ch, pos)
       IN  IF turn.panic
           THEN /\ lex_status' = "panic"
                /\ UNCHANGED <<lex_error, out, lex_line, current_ch, pos>>
           ELSE IF turn.error # <<>>
           THEN /\ lex_status' = "error"
                /\ lex_error' = turn.error
                /\ UNCHANGED <<out, lex_line, current_ch, pos>>
           ELSE /\ out' = turn.tokens
                /\ lex_line' = turn.line
                /\ current_ch' = turn.ch
                /\ pos' = turn.pos
                /\ UNCHANGED <<lex_status, lex_error>>
    /\ UNCHANGED <<file, parseVars, interpVars, mainVars>>

\* The loop ends: Ok(tokens).
TokenizeReturn ==
    /\ lex_status = "run"
    /\ current_ch = None
    /\ lex_status' = "done"
    /\ UNCHANGED <<file, pos, current_ch, out, lex_line, lex_error, parseVars, interpVars, mainVars>>

LexNext ==
    \/ TokenizeStep
    \/ TokenizeReturn

SpecLex == LexInit /\ [][LexNext]_vars

\* How many backslashes stand directly before place i of the text f, inside
\* the string literal that opens at place p.
RECURSIVE BackslashesBefore(_, _, _)
BackslashesBefore(f, p, i) ==
    IF i - 1 > p /\ f[i - 1] = BS THEN 1 + BackslashesBefore(f, p, i - 1) ELSE 0

\* The character at place i is escaped: an odd number of backslashes stands
\* before it.
Escaped(f, p, i) == BackslashesBefore(f, p, i) % 2 = 1

\* The double quotes that are not escaped, after the opening quote at p.
ClosingQuotes(f, p) ==
    {i \in (p + 1)..Len(f) : f[i] = DQ /\ ~Escaped(f, p, i)}

FirstClosingQuote(f, p) ==
    CHOOSE i \in ClosingQuotes(f, p) : \A j \in ClosingQuotes(f, p) : i <= j

\* What an escaped character contributes.
Contributes(ch) ==
    IF ch = "n" THEN LF
    ELSE IF ch = "t" THEN TAB
    ELSE IF ch = "r" THEN CR
    ELSE IF ch = "0" THEN NUL
    ELSE ch

\* The content of the literal between the places p and q: every character
\* but the escaping backslashes, an escaped one by what it contributes.
RECURSIVE Content(_, _, _, _)
Content(f, p, i, q) ==
    IF i >= q THEN <<>>
    ELSE IF Escaped(f, p, i) THEN <<Contributes(f[i])>> \o Content(f, p, i + 1, q)
    ELSE IF f[i] = BS THEN Content(f, p, i + 1, q)
    ELSE <<f[i]>> \o Content(f, p, i + 1, q)

\* C10: a double-quoted string becomes exactly one String token.  An escaped
\* n, t, r or 0 contributes newline, tab, carriage return or NUL, any other
\* escaped character itself, without ending the string; the string ends at
\* the first double quote that is not escaped, and the scan goes on after it.
C10_StringToken ==
    [][ (lex_status = "run" /\ current_ch = DQ /\ ClosingQuotes(file, pos) # {}) =>
          LET q == FirstClosingQuote(file, pos)
          IN  /\ out' = Append(out, TokenContainer(
                                      StringTok(Content(file, pos, pos + 1, q)),
                                      lex_line, 0))
              /\ lex_status' = "run"
              /\ pos' = IF q < Len(file) THEN q + 1 ELSE q
              /\ current_ch' = IF q < Len(file) THEN file[q + 1] ELSE None
      ]_vars

C10_Witness ==
    /\ file = <<DQ, "a", BS, "n", DQ>>
    /\ Len(out) = 1
    /\ out[1].token = StringTok(<<"a", LF>>)
    /\ current_ch = None
    /\ lex_status = "run"

(***************************************************************************)
(* tokenize on numbers, words and comments: the forms of text the scans    *)
(* of tokenize_number, tokenize_word and tokenize_comment_classic meet,    *)
(* alone, on a second line, and after a comment.                           *)
(***************************************************************************)
NumberChars == {"1", "2", ".", "+"}

WordChars == {"f", "u", "x", "o", "_", "1", "+"}

CommentChars == {"/", "a", LF, "+"}

Before == {<<>>, <<LF>>, <<"/", "/", LF>>}

NumberSources ==
    {before \o body : before \in Before, body \in SeqsUpTo(NumberChars, MaxSource)}

WordSources == SeqsUpTo(WordChars, MaxSource)

CommentSources ==
    {<<"/", "/">> \o body : body \in SeqsUpTo(CommentChars, MaxSource)}

\* tokenize, up to its loop, on one of these texts.
FormsInit ==
    /\ \/ file \in NumberSources
       \/ file \in WordSources
       \/ file \in CommentSources
    /\ pos = NextCh(file, 0).pos
    /\ current_ch = NextCh(file, 0).ch
    /\ out = <<>>
    /\ lex_line = 1
    /\ lex_status = "run"
    /\ lex_error = <<>>
    /\ ParseIdle
    /\ InterpIdle
    /\ MainIdle

SpecLexForms == FormsInit /\ [][LexNext]_vars

\* The 1-based line of place p of the text f: 1 plus the newlines before it.
LineOf(f, p) == 1 + Cardinality({i \in 1..(p - 1) : f[i] = LF})

\* The place after the run of digits and dots that starts at place p.
RECURSIVE EndOfNumber(_, _)
EndOfNumber(f, p) ==
    IF p < Len(f) /\ (f[p + 1] \in Digits \/ f[p + 1] = ".")
    THEN EndOfNumber(f, p + 1)
    ELSE p + 1

\* The dots of the number that starts at place p.
DotsOfNumber(f, p) == {i \in p..(EndOfNumber(f, p) - 1) : f[i] = "."}

\* C11: a numeric scan that meets a second `.` makes tokenize fail with the
\* invalid-float error that carries the line the number stands on, and no
\* token sequence is returned.
C11_InvalidFloatLine ==
    [][ (lex_status = "run" /\ is_numeric(current_ch)
            /\ Cardinality(DotsOfNumber(file, pos)) >= 2) =>
          /\ lex_status' = "error"
          /\ lex_error' = InvalidFloat(LineOf(file, pos))
      ]_vars

\* C12: a string whose opening quote has no unescaped closing quote before
\* the end of the text makes tokenize fail with the invalid-string error that
\* carries the line the string starts on, whatever the string spans and also
\* when it ends in a lone backslash.
C12_InvalidStringLine ==
    [][ (lex_status = "run" /\ current_ch = DQ /\ ClosingQuotes(file, pos) = {}) =>
          /\ lex_status' = "error"
          /\ lex_error' = InvalidString(LineOf(file, pos))
      ]_vars

\* What is left of the text to scan: the characters the iterator has not
\* given out, and the one tokenize holds in current_ch.
Remaining == (Len(file) - pos) + (IF current_ch = None THEN 0 ELSE 1)

\* C15: tokenize terminates on every finite text: each turn of its loop ends
\* the call (with the tokens or with a lexical error) or leaves less of the
\* text to scan, so the loop cannot go round for ever, whatever the text
\* ends with.
C15_Terminates ==
    [][ lex_status = "run" =>
          \/ lex_status' \in {"done", "error"}
          \/ Remaining' < Remaining
      ]_vars

\* C16: the line of every token tokenize emits, and the line of every
\* lexical error, is the 1-based line of the text the token starts on: 1 plus
\* the newline characters before it, those that end a comment and those
\* inside a string literal among them.
C16_LinesAreSourceLines ==
    [][ lex_status = "run" =>
          /\ Len(out') > Len(out) => out'[Len(out')].line = LineOf(file, pos)
          /\ lex_status' = "error" => lex_error'[3] = LineOf(file, pos)
      ]_vars

\* The place of the newline that ends the comment whose second `/` is at
\* place p, or the place after the text if no newline follows.
EndOfComment(f, p) ==
    LET newlines == {i \in (p + 1)..Len(f) : f[i] = LF}
    IN  IF newlines = {} THEN Len(f) + 1
        ELSE CHOOSE i \in newlines : \A j \in newlines : i <= j

\* C17: a `//` comment adds exactly one newline token: the characters up to
\* the next newline are dropped, that newline gives no token of its own, and
\* the scan goes on with the character after it, so the tokens that follow
\* are those of the text after the newline.
C17_CommentIsOneNewline ==
    [][ (lex_status = "run" /\ current_ch = "/" /\ pos < Len(file)
            /\ file[pos + 1] = "/") =>
          LET end == EndOfComment(file, pos + 1)
          IN  /\ Len(out') = Len(out) + 1
              /\ SubSeq(out', 1, Len(out)) = out
              /\ out'[Len(out')].token = NewLineTok
              /\ lex_status' = "run"
              /\ current_ch' = IF end < Len(file) THEN file[end + 1] ELSE None
              /\ pos' = IF end < Len(file) THEN end + 1 ELSE Len(file)
      ]_vars

C17_Witness ==
    /\ file = <<"/", "/", "a", LF, "+">>
    /\ lex_status = "done"
    /\ Len(out) = 2
    /\ out[1].token = NewLineTok
    /\ out[2].token = Simple("Add")

\* The characters tokenize has an arm for.
Recognized ==
    Letters \cup Digits
        \cup {"_", "/", " ", "+", "-", "*", DQ, ":", "(", ")", "{", "}", LF}

\* C18: a character tokenize has no arm for never makes it fail: it gives
\* one Invalid token that carries exactly that character and the scan goes
\* on with the next character; the only errors tokenize returns are the
\* invalid-float and the invalid-string error.
C18_InvalidIsNotFatal ==
    [][ lex_status = "run" =>
          /\ (current_ch # None /\ current_ch \notin Recognized) =>
                /\ lex_status' = "run"
                /\ Len(out') = Len(out) + 1
                /\ SubSeq(out', 1, Len(out)) = out
                /\ out'[Len(out')].token = [type |-> "Invalid", val |-> current_ch]
                /\ current_ch' = IF pos < Len(file) THEN file[pos + 1] ELSE None
                /\ pos' = IF pos < Len(file) THEN pos + 1 ELSE pos
          /\ lex_status' = "error" =>
                /\ lex_error'[1] \in {"InvalidFloat", "InvalidString"}
                /\ current_ch \in Digits \cup {DQ}
      ]_vars

C18_Witness ==
    /\ file = <<".", BS, "n">>
    /\ lex_status = "done"
    /\ Len(out) = 3
    /\ out[1].token = InvalidTok(".")
    /\ out[2].token = InvalidTok(BS)
    /\ out[3].token = Identifier(<<"n">>)

\* The place after the longest run of alphanumeric characters and `_` that
\* starts at place p.
RECURSIVE EndOfWord(_, _)
EndOfWord(f, p) ==
    IF p < Len(f) /\ (f[p + 1] \in Letters \cup Digits \cup {"_"})
    THEN EndOfWord(f, p + 1)
    ELSE p + 1

\* The keyword table, word by word.
KeywordTable ==
    { <<<<"f", "u">>, [type |-> "KeywordModifier", val |-> "Global"]>>,
      <<<<"j", "u">>, [type |-> "KeywordModifier", val |-> "Constant"]>>,
      <<<<"p", "u">>, [type |-> "KeywordModifier", val |-> "Private"]>>,
      <<<<"i", "j">>, [type |-> "KeywordIf"]>>,
      <<<<"s", "u", "l", "a">>, [type |-> "KeywordElse"]>>,
      <<<<"s", "k", "r", "_", "a", "p", "p">>, [type |-> "NatCall"]>>,
      <<<<"i", "o">>, [type |-> "Bool", val |-> TRUE]>>,
      <<<<"n", "o">>, [type |-> "Bool", val |-> FALSE]>>,
      <<<<"u", "m", "s">>, [type |-> "KeywordFunction"]>>,
      <<<<"k", "a", "t">>, [type |-> "KeywordClass"]>>,
      <<<<"e", "i">>, [type |-> "KeywordReturn"]>>,
      <<<<"b", "i", "u", "l", "i">>, [type |-> "KeywordBubbleScope"]>>,
      <<<<"k", "o", "d", "i">>, [type |-> "KeywordSimpleScope"]>>,
      <<<<"s", "p", "o", "k", "i">>, [type |-> "KeywordUnusedScope"]>> }

\* The token of a whole word: its entry of the table, or an identifier.
TokenOfWord(word) ==
    IF \E entry \in KeywordTable : entry[1] = word
    THEN (CHOOSE entry \in KeywordTable : entry[1] = word)[2]
    ELSE [type |-> "Identifier", val |-> word]

\* C19: a word scan takes the longest run of alphanumeric characters and
\* `_` and maps the whole word through the keyword table: a word of the
\* table gives its keyword, any other word, one that only starts with a
\* keyword too, gives one Identifier with the whole word; the character that
\* ended the scan is the next one tokenize scans.
C19_WholeWord ==
    [][ (lex_status = "run" /\ (current_ch \in Letters \/ current_ch = "_")) =>
          LET end  == EndOfWord(file, pos)
              word == SubSeq(file, pos, end - 1)
          IN  /\ lex_status' = "run"
              /\ Len(out') = Len(out) + 1
              /\ SubSeq(out', 1, Len(out)) = out
              /\ out'[Len(out')].token = TokenOfWord(word)
              /\ current_ch' = IF end <= Len(file) THEN file[end] ELSE None
              /\ pos' = IF end <= Len(file) THEN end ELSE Len(file)
      ]_vars

C19_Witness ==
    /\ file = <<"f", "u", "x", "+">>
    /\ lex_status = "done"
    /\ Len(out) = 2
    /\ out[1].token = Identifier(<<"f", "u", "x">>)
    /\ out[2].token = Simple("Add")

(***************************************************************************)
(* The parser as a state machine: a caller holds a token queue and calls   *)
(* rules on it, one after another, until one of them fails.                *)
(***************************************************************************)
ParseInit ==
    /\ tokens \in SeqsUpTo(ParserTokens, MaxTokens)
    /\ input = tokens
    /\ rule = ""
    /\ result = OkNone(tokens)
    /\ graph = <<>>
    /\ id = 0
    /\ InterpIdle
    /\ LexIdle
    /\ MainIdle

Call(name, r) ==
    /\ result.kind # "Err"
    /\ input' = tokens
    /\ rule' = name
    /\ result' = r
    /\ tokens' = r.tokens
    /\ UNCHANGED <<graph, id, interpVars, lexVars, mainVars>>

CallParseType  == Call("Type", parse_type(tokens))
CallVd         == Call("Vd", Vd_parse(tokens))
CallGlobalVar  == Call("GlobalVar", GlobalVar_parse(tokens))
CallPrivateVar == Call("PrivateVar", PrivateVar_parse(tokens))
CallConstVar   == Call("ConstVar", ConstVar_parse(tokens))
CallVarDec     == Call("VarDec", VarDec_parse(tokens))

ParseNext ==
    \/ CallParseType
    \/ CallVd
    \/ CallGlobalVar
    \/ CallPrivateVar
    \/ CallConstVar
    \/ CallVarDec

(***************************************************************************)
(* Properties of the declaration rules.                                    *)
(***************************************************************************)
IsSuffix(s, t) ==
    Len(s) <= Len(t) /\ s = SubSeq(t, Len(t) - Len(s) + 1, Len(t))

FrontIs(q, tok) == q # <<>> /\ Head(q) = tok

FrontIsRegisteredType(q) ==
    q # <<>> /\ Head(q).type = "Identifier" /\ Head(q).val \in TypeRegistry

\* C1: parse_type returns no-match and leaves the queue as it was when the
\* front token is an unregistered identifier, is no identifier, or is
\* missing; on a registered identifier it removes exactly that token and
\* returns the Type carrying its name.
C1_ParseTypeFrame ==
    rule = "Type" =>
        IF FrontIsRegisteredType(input)
        THEN /\ result.kind = "Some"
             /\ result.node = [node |-> "Type", name |-> Head(input).val]
             /\ tokens = Tail(input)
        ELSE /\ result.kind = "None"
             /\ tokens = input

C1_Witness ==
    /\ rule = "Type"
    /\ FrontIs(input, Identifier("x"))
    /\ Len(input) > 1
    /\ result.kind = "None"

DeclarationRules == {"Vd", "GlobalVar", "PrivateVar", "ConstVar", "VarDec"}

\* C2: a declaration rule that returns no-match leaves the queue exactly as
\* it was at entry; tokens only leave from the front; a rule that returns a
\* node has removed a non-empty prefix.
C2_NoMatchLeavesQueue ==
    rule \in DeclarationRules =>
        /\ IsSuffix(tokens, input)
        /\ result.kind = "None" => tokens = input
        /\ result.kind = "Some" => Len(tokens) < Len(input)

C2_Witness ==
    /\ rule = "VarDec"
    /\ result.kind = "None"
    /\ Len(input) > 1
    /\ Head(input).type = "Identifier"

\* The token that makes a rule commit.
Commits(r, q) ==
    CASE r = "GlobalVar"  -> FrontIs(q, KwGlobal)
      [] r = "PrivateVar" -> FrontIs(q, KwPrivate)
      [] r = "ConstVar"   -> FrontIs(q, KwConstant)
      [] r = "Vd"         -> FrontIsRegisteredType(q)
      [] r = "VarDec"     -> \/ FrontIs(q, KwGlobal) \/ FrontIs(q, KwPrivate)
                             \/ FrontIs(q, KwConstant) \/ FrontIsRegisteredType(q)
      [] OTHER            -> FALSE

\* The node a <var_dec> starting with this token must be, if it is one.
AlternativeOf(tok) ==
    CASE tok = KwConstant -> "ConstVar"
      [] tok = KwPrivate  -> "PrivateVar"
      [] tok = KwGlobal   -> "GlobalVar"
      [] OTHER            -> "Vd"

\* C3: committed choice.  A rule that has consumed its deciding token never
\* returns no-match: a missing type, identifier or expression, or a failing
\* sub-rule, is a parse error; and the node VarDec returns is the one of the
\* alternative that consumed the front token.
C3_CommittedChoice ==
    (rule \in DeclarationRules /\ Commits(rule, input)) =>
        /\ result.kind \in {"Some", "Err"}
        /\ result.kind = "Err" =>
              result.err \in {"Expected a variable declaration", "Expected an identifier",
                              "Expected an expression", "Expected a right parenthesis"}
        /\ (rule \in {"GlobalVar", "PrivateVar", "ConstVar"}
              /\ ~(\E k \in 1..Len(input) : FrontIsRegisteredType(SubSeq(input, k, Len(input)))))
              => (result.kind = "Err" /\ result.err = "Expected a variable declaration")
        /\ (rule = "Vd" /\ ~(Len(input) >= 2 /\ input[2].type = "Identifier"))
              => (result.kind = "Err" /\ result.err = "Expected an identifier")
        /\ (rule = "Vd" /\ Len(input) >= 2 /\ input[2].type = "Identifier"
              /\ Exp_parse(SubSeq(input, 3, Len(input))).kind = "None")
              => (result.kind = "Err" /\ result.err = "Expected an expression")
        /\ (rule = "VarDec" /\ result.kind = "Some")
              => result.node.inner.node = AlternativeOf(Head(input))

C3_Witness ==
    /\ rule = "VarDec"
    /\ input = <<KwGlobal, KwPrivate, Identifier("int"), Identifier("x"), IntTok(5)>>
    /\ result.kind = "Err"
    /\ result.err = "Expected a variable declaration"

\* The modifier prefixes of a well-formed declaration.
ModifierPrefixes ==
    { <<>>, <<KwGlobal>>, <<KwPrivate>>, <<KwConstant>>,
      <<KwConstant, KwGlobal>>, <<KwConstant, KwPrivate>> }

\* The nesting that mirrors a prefix, around the node vd.
Nesting(prefix, vd) ==
    CASE prefix = <<>>                      -> vd
      [] prefix = <<KwGlobal>>              -> [node |-> "GlobalVar", vd |-> vd]
      [] prefix = <<KwPrivate>>             -> [node |-> "PrivateVar", vd |-> vd]
      [] prefix = <<KwConstant>>            -> [node |-> "ConstVar", inner |-> vd]
      [] prefix = <<KwConstant, KwGlobal>>  ->
            [node |-> "ConstVar", inner |-> [node |-> "GlobalVar", vd |-> vd]]
      [] prefix = <<KwConstant, KwPrivate>> ->
            [node |-> "ConstVar", inner |-> [node |-> "PrivateVar", vd |-> vd]]

\* q is prefix, registered type, identifier, expression (and what follows).
WellFormed(prefix, q) ==
    LET n == Len(prefix)
    IN  /\ Len(q) >= n + 3
        /\ SubSeq(q, 1, n) = prefix
        /\ FrontIsRegisteredType(SubSeq(q, n + 1, Len(q)))
        /\ q[n + 2].type = "Identifier"
        /\ Exp_parse(SubSeq(q, n + 3, Len(q))).kind = "Some"

\* C4: on a well-formed declaration VarDec returns the nesting that mirrors
\* the modifier prefix, around a Vd holding the type name, the identifier and
\* the expression.
C4_NestingMirrorsPrefix ==
    rule = "VarDec" =>
        \A prefix \in ModifierPrefixes :
            WellFormed(prefix, input) =>
                LET n   == Len(prefix)
                    exp == Exp_parse(SubSeq(input, n + 3, Len(input)))
                    vd  == [node |-> "Vd",
                            type_ |-> [node |-> "Type", name |-> input[n + 1].val],
                            identifier |-> input[n + 2].val,
                            exp |-> exp.node]
                IN  /\ result.kind = "Some"
                    /\ result.node = [node |-> "VarDec", inner |-> Nesting(prefix, vd)]
                    /\ tokens = exp.tokens

C4_Witness ==
    /\ rule = "VarDec"
    /\ input = <<KwConstant, KwGlobal, Identifier("int"), Identifier("x"), IntTok(5)>>
    /\ result.kind = "Some"
    /\ result.node.inner.node = "ConstVar"
    /\ result.node.inner.inner.node = "GlobalVar"
    /\ tokens = <<>>

\* The orders a list of alternatives can be tried in.
RECURSIVE OrdersOf(_)
OrdersOf(S) ==
    IF S = {} THEN {<<>>}
    ELSE UNION { {<<x>> \o o : o \in OrdersOf(S \ {x})} : x \in S }

Orders(names) == OrdersOf({names[i] : i \in 1..Len(names)})

VarDecOrders == Orders(VarDecOrder)

ConstVarOrders == Orders(ConstVarOrder)

Matching(names, q) ==
    { i \in 1..Len(names) : Alternative(names[i], q).kind # "None" }

\* C5: the alternatives of VarDec, and those of the body of ConstVar, are
\* pairwise disjoint: at most one of them returns anything but no-match, and
\* every order of trying them gives the result and the queue the code's
\* order gives.
C5_AlternativesDisjoint ==
    /\ rule = "VarDec" =>
          /\ Cardinality(Matching(VarDecOrder, input)) <= 1
          /\ \A o \in VarDecOrders : VarDec_parse_in(o, input) = result
    /\ rule = "ConstVar" =>
          /\ FrontIs(input, KwConstant) =>
                Cardinality(Matching(ConstVarOrder, Tail(input))) <= 1
          /\ \A o \in ConstVarOrders : ConstVar_parse_in(o, input) = result

C5_Witness ==
    /\ rule = "VarDec"
    /\ FrontIs(input, KwPrivate)
    /\ result.kind = "Some"
    /\ Matching(VarDecOrder, input) = {2}

SpecParse == ParseInit /\ [][ParseNext]_vars

(***************************************************************************)
(* The id rules as a state machine: a caller holds a queue of identifiers  *)
(* and ':' and calls the rules on it until one of them fails.              *)
(***************************************************************************)
IdInit ==
    /\ tokens \in SeqsUpTo(IdTokens, MaxChain)
    /\ input = tokens
    /\ rule = ""
    /\ result = OkNone(tokens)
    /\ graph = <<>>
    /\ id = 0
    /\ InterpIdle
    /\ LexIdle
    /\ MainIdle

CallCGet  == Call("CGet", parse_cget(tokens))
CallIdGet == Call("IdGet", IdGet_parse(tokens))

IdNext ==
    \/ CallCGet
    \/ CallIdGet

SpecIdParse == IdInit /\ [][IdNext]_vars

\* A chain: identifiers separated by ':', at least two of them.
IsChain(q) ==
    /\ Len(q) >= 3
    /\ Len(q) % 2 = 1
    /\ \A i \in 1..Len(q) :
          IF i % 2 = 1 THEN q[i].type = "Identifier" ELSE q[i] = Inside

\* The names of a chain, in source order.
NamesOf(q) == [i \in 1..((Len(q) + 1) \div 2) |-> q[2 * i - 1].val]

\* The structure the claim describes for the names from place i on: an IdGet
\* per name but the last, each with no tuple and its continuation tagged
\* IdGet, the last of them with the continuation tagged CGet that holds the
\* last name.
RECURSIVE RightNested(_, _)
RightNested(names, i) ==
    [node |-> "IdGet", identifier |-> names[i], tuple |-> NoNode,
     op_in |-> IF i + 1 = Len(names)
               THEN [tag |-> "CGet", node |-> [node |-> "CGet", name |-> names[i + 1]]]
               ELSE [tag |-> "IdGet", node |-> RightNested(names, i + 1)]]

C14_CGetIffRegistered ==
    rule = "CGet" =>
        IF input # <<>> /\ Head(input).type = "Identifier" /\ Head(input).val \in TypeRegistry
        THEN result.kind = "Some"
             /\ result.node = [node |-> "CGet", name |-> Head(input).val]
             /\ tokens = Tail(input)
        ELSE result.kind = "None" /\ tokens = input

C14_Witness ==
    /\ rule = "CGet"
    /\ input = <<Identifier("dar")>>
    /\ result.kind = "Some"
    /\ result.node = CGet("dar")
    /\ tokens = <<>>

(***************************************************************************)
(* One line through the interpreter: every line of up to MaxLine words,    *)
(* on an empty variable map.                                               *)
(***************************************************************************)
LineInit ==
    /\ line \in Lines
    /\ variables = EmptyMap
    /\ scope_level \in ScopeLevels
    /\ status = "ready"
    /\ message = <<>>
    /\ op = ""
    /\ ParseIdle
    /\ LexIdle
    /\ MainIdle

Finish(r) ==
    /\ status' = r.kind
    /\ message' = r.msg
    /\ variables' = r.variables

\* interpret(line, line_number, &mut variables)
InterpretLine ==
    /\ status = "ready"
    /\ Finish(interpret(line, variables))
    /\ op' = "interpret"
    /\ UNCHANGED <<line, scope_level, parseVars, lexVars, mainVars>>

\* create_variable(&line, line_number, &mut variables, scope_level)
CreateVariableLine ==
    /\ status = "ready"
    /\ Finish(create_variable(line, variables, scope_level))
    /\ op' = "create_variable"
    /\ UNCHANGED <<line, scope_level, parseVars, lexVars, mainVars>>

LineNext ==
    \/ InterpretLine
    \/ CreateVariableLine

SpecLine == LineInit /\ [][LineNext]_vars

(***************************************************************************)
(* A run of the interpreter: declarations, assignments and scopes, one     *)
(* after the other on one variable map, until error() ends the run.        *)
(***************************************************************************)
RunInit ==
    /\ line = <<>>
    /\ variables = EmptyMap
    /\ scope_level = 0
    /\ status = "ok"
    /\ message = <<>>
    /\ op = ""
    /\ ParseIdle
    /\ LexIdle
    /\ MainIdle

Room == Cardinality(DOMAIN variables) < MaxVars

\* interpret on a line of the program: new_variable at the scope level 1,
\* then the rest of create_variable.
Interpret ==
    /\ status = "ok"
    /\ \E temp \in NewVariableResults[1] :
          /\ temp.kind = "ok" => (Room \/ temp.var.name \in DOMAIN variables)
          /\ Finish(create_variable_from(temp, variables))
    /\ op' = "interpret"
    /\ UNCHANGED <<line, scope_level, parseVars, lexVars, mainVars>>

\* create_variable called at the scope level of the caller.
CreateVariable ==
    /\ status = "ok"
    /\ \E temp \in NewVariableResults[scope_level] :
          /\ temp.kind = "ok" => (Room \/ temp.var.name \in DOMAIN variables)
          /\ Finish(create_variable_from(temp, variables))
    /\ op' = "create_variable"
    /\ UNCHANGED <<line, scope_level, parseVars, lexVars, mainVars>>

\* set_value on a binding of the map.
SetValue ==
    /\ status = "ok"
    /\ \E name \in DOMAIN variables, value \in Values :
          LET r == set_value(variables[name], value)
          IN  /\ status' = r.kind
              /\ message' = r.msg
              /\ variables' = IF r.kind = "ok"
                              THEN [variables EXCEPT ![name] = r.var]
                              ELSE variables
    /\ op' = "set_value"
    /\ UNCHANGED <<line, scope_level, parseVars, lexVars, mainVars>>

\* Entering a nested block.
EnterScope ==
    /\ status = "ok"
    /\ scope_level < MaxScope
    /\ scope_level' = scope_level + 1
    /\ op' = "enter_scope"
    /\ UNCHANGED <<line, variables, status, message, parseVars, lexVars, mainVars>>

\* Leaving the block of the current scope level.
ExitScope ==
    /\ status = "ok"
    /\ scope_level > 0
    /\ variables' = exit_scope(variables, scope_level)
    /\ scope_level' = scope_level - 1
    /\ op' = "exit_scope"
    /\ UNCHANGED <<line, status, message, parseVars, lexVars, mainVars>>

RunNext ==
    \/ Interpret
    \/ CreateVariable
    \/ SetValue
    \/ EnterScope
    \/ ExitScope

SpecRun == RunInit /\ [][RunNext]_vars

AlreadyExists(name) == <<"Variable ", name, " already exists">>

\* C7: declaring a name that has a binding fails with the
\* duplicate-declaration error and leaves the map as it is; declaring a fresh
\* name inserts exactly that one binding; every binding is filed under its
\* own name, so names are unique within each scope level.
C7_DuplicateDeclaration ==
    /\ \A name \in DOMAIN variables : variables[name].name = name
    /\ \A level \in 0..(MaxScope + 1) :
          LET here == {name \in DOMAIN variables : variables[name].scope_level = level}
          IN  Cardinality({variables[name].name : name \in here}) = Cardinality(here)
    /\ \A temp \in NewVariableResults[scope_level] :
          temp.kind = "ok" =>
              LET name == temp.var.name
                  r    == create_variable_from(temp, variables)
              IN  IF name \in DOMAIN variables
                  THEN /\ r.kind = "error"
                       /\ r.msg = AlreadyExists(name)
                       /\ r.variables = variables
                  ELSE /\ r.kind = "ok"
                       /\ DOMAIN r.variables = DOMAIN variables \cup {name}
                       /\ r.variables[name] = temp.var
                       /\ \A other \in DOMAIN variables : r.variables[other] = variables[other]
    /\ (op \in {"interpret", "create_variable"} /\ status = "error"
          /\ \E name \in Words : message = AlreadyExists(name))
          => \E name \in DOMAIN variables : message = AlreadyExists(name)

C7_Witness ==
    /\ op = "create_variable"
    /\ status = "error"
    /\ message = AlreadyExists("x")
    /\ DOMAIN variables = {"x", "int"}
    /\ variables["x"].is_constant
    /\ variables["x"].scope_level = 0

\* C8: set_value on a constant binding fails with the constant-mutation
\* error whatever the new value, and on any other binding replaces the
\* value; no step changes a binding that was created constant.
C8_ConstantKeepsValue ==
    [][ \A name \in DOMAIN variables :
          /\ (variables[name].is_constant /\ name \in DOMAIN variables')
                => variables'[name] = variables[name]
          /\ \A value \in Values \cup {IntegerValue(7), NullValue} :
                LET r == set_value(variables[name], value)
                IN  IF variables[name].is_constant
                    THEN r.kind = "error" /\ r.msg = <<"Cannot redefine value of constant">>
                    ELSE r.kind = "ok" /\ r.var = [variables[name] EXCEPT !.value = value]
      ]_vars

C8_Witness ==
    /\ op = "set_value"
    /\ status = "error"
    /\ message = <<"Cannot redefine value of constant">>
    /\ "x" \in DOMAIN variables
    /\ variables["x"].is_constant
    /\ variables["x"].value = IntegerValue(5)

\* C9: leaving scope level n removes the bindings of level n and no other:
\* the bindings of the other levels, level 0 among them, stay as they are.
C9_ExitScopeFrame ==
    [][ op' = "exit_scope" =>
          /\ DOMAIN variables' =
                {name \in DOMAIN variables : variables[name].scope_level # scope_level}
          /\ \A name \in DOMAIN variables' : variables'[name] = variables[name]
      ]_vars

C9_Witness ==
    /\ op = "exit_scope"
    /\ scope_level = 1
    /\ DOMAIN variables = {"x", "int"}
    /\ variables["x"].scope_level = 0
    /\ variables["int"].scope_level = 1

\* The leading modifiers of a line: the words before the first word that is
\* no modifier.
RECURSIVE LeadingModifiers(_)
LeadingModifiers(words) ==
    IF words # <<>> /\ Head(words) \in {"fu", "pu", "ju"}
    THEN {Head(words)} \cup LeadingModifiers(Tail(words))
    ELSE {}

\* C6: a declaration whose leading modifiers include both `fu` and `pu`
\* fails with the conflicting-modifier error and creates no binding.
C6_ConflictingModifiers ==
    (status # "ready" /\ {"fu", "pu"} \subseteq LeadingModifiers(line)) =>
        /\ status = "error"
        /\ message = <<"Variable cannot be both global and private">>
        /\ variables = EmptyMap

(***************************************************************************)
(* One declaration through the interpreter: modifiers, then a type, a name *)
(* and a payload in any order and number, at any scope level of the        *)
(* caller.                                                                 *)
(***************************************************************************)
DeclareInit ==
    /\ line \in Declarations
    /\ variables = EmptyMap
    /\ scope_level = 0
    /\ status = "ready"
    /\ message = <<>>
    /\ op = ""
    /\ ParseIdle
    /\ LexIdle
    /\ MainIdle

\* create_variable(&line, line_number, &mut variables, scope_level) with the
\* scope level the caller is at.
CreateVariableAt ==
    /\ status = "ready"
    /\ \E level \in ScopeLevels :
          /\ scope_level' = level
          /\ Finish(create_variable(line, variables, level))
    /\ op' = "create_variable"
    /\ UNCHANGED <<line, parseVars, lexVars, mainVars>>

DeclareNext ==
    \/ InterpretLine
    \/ CreateVariableAt

SpecDeclare == DeclareInit /\ [][DeclareNext]_vars

\* C20: the scope level of a new binding is 0 when the declaration carries
\* the global modifier `fu`, whatever scope level the caller is at, and the
\* scope level the caller hands over otherwise (interpret hands over 1).
C20_ScopeLevelOfBinding ==
    (status = "ok" /\ op \in {"interpret", "create_variable"}) =>
        /\ Cardinality(DOMAIN variables) = 1
        /\ \A name \in DOMAIN variables :
              variables[name].scope_level =
                  IF "fu" \in LeadingModifiers(line) THEN 0
                  ELSE IF op = "interpret" THEN 1
                  ELSE scope_level

C20_Witness ==
    /\ op = "create_variable"
    /\ status = "ok"
    /\ scope_level = 2
    /\ line = <<"ju", "fu", "int", "x", "5">>
    /\ variables["x"].scope_level = 0
    /\ variables["x"].is_constant

\* The declaration head of a line: its leading modifiers, in order.
RECURSIVE ModifierRun(_)
ModifierRun(words) ==
    IF words # <<>> /\ Head(words) \in {"fu", "pu", "ju"}
    THEN <<Head(words)>> \o ModifierRun(Tail(words))
    ELSE <<>>

\* A modifier token stands twice in the sequence.
Repeats(run) == \E i, j \in DOMAIN run : i < j /\ run[i] = run[j]

\* The repeated-modifier syntax error.
IsRepeatedModifierError ==
    /\ status = "error"
    /\ Len(message) = 3
    /\ message[1] = "Syntax error: to many "
    /\ message[3] = " in variable declaration"

\* C21: a declaration whose head carries the same modifier token twice fails
\* with the repeated-modifier syntax error, and a declaration that repeats no
\* modifier never fails with that error.
C21_RepeatedModifier ==
    (op = "create_variable" /\ Len(line) >= Len(ModifierRun(line)) + 3) =>
        (Repeats(ModifierRun(line)) <=> IsRepeatedModifierError)

\* C22: the declared type name is the word after the leading modifiers; when
\* it is a literal type the binding holds a value of that type parsed from
\* the payload, and any other type name fails with the unknown-type error
\* and creates no binding (heads that conflict or repeat a modifier aside).
C22_DeclaredType ==
    LET run == ModifierRun(line)
        k   == Len(run)
    IN  (/\ op = "create_variable"
         /\ ~ Repeats(run)
         /\ ~ ({"fu", "pu"} \subseteq LeadingModifiers(line))
         /\ Len(line) >= k + 3) =>
            IF is_variable_type(line[k + 1])
            THEN /\ message # <<"Unknown variable type">>
                 /\ status = "ok" =>
                       /\ TypedValue(line, k).kind = "ok"
                       /\ \E name \in DOMAIN variables :
                             variables[name].value = TypedValue(line, k).var
            ELSE /\ status = "error"
                 /\ message = <<"Unknown variable type">>
                 /\ variables = EmptyMap

\* The modifier nodes of a declaration AST, from the outermost inwards.
RECURSIVE ModifierSpine(_)
ModifierSpine(n) ==
    CASE n.node = "VarDec"                     -> ModifierSpine(n.inner)
      [] n.node = "ConstVar"                   -> <<"ConstVar">> \o ModifierSpine(n.inner)
      [] n.node \in {"GlobalVar", "PrivateVar"} -> <<n.node>> \o ModifierSpine(n.vd)
      [] OTHER                                 -> <<>>

\* The modifier keywords in front of a token queue, in order.
RECURSIVE ModifierTokens(_)
ModifierTokens(q) ==
    IF q # <<>> /\ Head(q).type = "KeywordModifier"
    THEN <<Head(q)>> \o ModifierTokens(Tail(q))
    ELSE <<>>

\* A head no declaration may have: a modifier twice, `fu` with `pu`, or `ju`
\* after `fu` or `pu`.
BadHead(q) ==
    LET run == ModifierTokens(q)
    IN  \E i, j \in DOMAIN run :
            /\ i < j
            /\ \/ run[i] = run[j]
               \/ {run[i], run[j]} = {KwGlobal, KwPrivate}
               \/ run[i] \in {KwGlobal, KwPrivate} /\ run[j] = KwConstant

\* C24: an AST VarDec parsing returns carries each modifier at most once and
\* never both global and private: a ConstVar stands only outermost, and at
\* most one of GlobalVar and PrivateVar stands below it; a token sequence
\* whose head repeats a modifier, has `fu` and `pu` together or has `ju`
\* after `fu`/`pu` ends in a parse error.
C24_ModifiersOnceAndOrdered ==
    rule = "VarDec" =>
        /\ result.kind = "Some" =>
              LET spine == ModifierSpine(result.node)
              IN  /\ \A i, j \in DOMAIN spine : i < j => spine[i] # spine[j]
                  /\ \A i \in DOMAIN spine : spine[i] = "ConstVar" => i = 1
                  /\ ~ ({"GlobalVar", "PrivateVar"} \subseteq
                            {spine[i] : i \in DOMAIN spine})
        /\ BadHead(input) => result.kind = "Err"

C24_Witness ==
    /\ rule = "VarDec"
    /\ input = <<KwGlobal, KwConstant, Identifier("int"), Identifier("x"), IntTok(5)>>
    /\ result.kind = "Err"
    /\ result.err = "Expected a variable declaration"

(***************************************************************************)
(* Rendering: a rule of vars.rs is called on a token queue and the node it *)
(* returns is rendered into an empty graph description, the block counter  *)
(* at 0.                                                                   *)
(***************************************************************************)
CallVarMod == Call("VarMod", VarMod_parse(tokens))

\* One rule on the queue.
ParseOnce ==
    /\ rule = ""
    /\ \/ CallParseType
       \/ CallVd
       \/ CallGlobalVar
       \/ CallPrivateVar
       \/ CallConstVar
       \/ CallVarDec
       \/ CallVarMod

\* node.graph_display(&mut graph, &mut id)
Render ==
    /\ result.kind = "Some"
    /\ graph = <<>>
    /\ LET r == graph_display(result.node, graph, id)
       IN  /\ graph' = r.graph
           /\ id' = r.id
    /\ UNCHANGED <<tokens, input, rule, result, interpVars, lexVars, mainVars>>

RenderNext ==
    \/ ParseOnce
    \/ Render

SpecRender == ParseInit /\ [][RenderNext]_vars

\* The number of lines of a kind among the first k lines of the graph.
CountLines(kind, k) == Cardinality({i \in 1..k : graph[i].line = kind})

\* Every `end` closes a block that is open, and no block stays open.
WellNested ==
    /\ \A k \in 1..Len(graph) : CountLines("end", k) <= CountLines("subgraph", k)
    /\ CountLines("end", Len(graph)) = CountLines("subgraph", Len(graph))

\* C23: rendering a subtree gives well-nested output, every opened block has
\* its own number, and the id counter advances by exactly one per block
\* opened.
C23_BlocksNumberedOnce ==
    graph # <<>> =>
        /\ WellNested
        /\ \A i, j \in DOMAIN graph :
              (i < j /\ graph[i].line = "subgraph" /\ graph[j].line = "subgraph")
                  => graph[i].id # graph[j].id
        /\ id = CountLines("subgraph", Len(graph))

(***************************************************************************)
(* tokenize on long numbers: runs of digits up to and beyond the ten       *)
(* digits of u32::MAX, alone, before a symbol, and with dots.              *)
(***************************************************************************)
MaxDigits == 10

NumberTails == {<<>>, <<"+">>, <<".">>, <<".", "9">>, <<".", "9", ".">>}

DigitSources ==
    {run \o tail : run \in SeqsUpTo({"0", "9"}, MaxDigits) \ {<<>>},
                   tail \in NumberTails}

\* tokenize, up to its loop, on one of these texts.
DigitsInit ==
    /\ file \in DigitSources
    /\ pos = NextCh(file, 0).pos
    /\ current_ch = NextCh(file, 0).ch
    /\ out = <<>>
    /\ lex_line = 1
    /\ lex_status = "run"
    /\ lex_error = <<>>
    /\ ParseIdle
    /\ InterpIdle
    /\ MainIdle

SpecLexDigits == DigitsInit /\ [][LexNext]_vars

\* C25: a numeric scan ends in a token or in the invalid-float error and
\* never aborts, whatever value the digits denote: a run of digits gives an
\* Int token with the decimal value of the run, digits with one `.` a Float
\* token, two dots the error.
C25_NumberScanNeverAborts ==
    [][ (lex_status = "run" /\ is_numeric(current_ch)) =>
          LET end  == EndOfNumber(file, pos)
              dots == Cardinality(DotsOfNumber(file, pos))
          IN  /\ lex_status' # "panic"
              /\ dots >= 2 => (lex_status' = "error" /\ lex_error'[1] = "InvalidFloat")
              /\ dots < 2 =>
                    /\ lex_status' = "run"
                    /\ Len(out') = Len(out) + 1
                    /\ out'[Len(out')].token.type = IF dots = 1 THEN "Float" ELSE "Int"
                    /\ dots = 0 =>
                          out'[Len(out')].token =
                              IntTok(DecimalValue(SubSeq(file, pos, end - 1)))
      ]_vars

(***************************************************************************)
(* The main loop of the line-oriented interpreter (interpret.rs, main).    *)
(***************************************************************************)
MaxProgram == 3

\* 2^16: line_number and `code.len() as u16` are u16.
U16 == 65536

\* The lines of the programs: the words and the blanks between them.
ProgramLines ==
    { <<"int", " ", "x", " ", "5">>,
      <<"int", " ", "y", " ", "7">>,
      <<"fu", " ", "int", " ", "z", " ", "5">>,
      <<"x">> }

Programs == SeqsUpTo(ProgramLines, MaxProgram)

\* capsule_words (crate root, not part of the sources at hand): the words of
\* a line, without the blanks between them.
RECURSIVE capsule_words(_)
capsule_words(text) ==
    IF text = <<>> THEN <<>>
    ELSE IF Head(text) = " " THEN capsule_words(Tail(text))
    ELSE <<Head(text)>> \o capsule_words(Tail(text))

\* How the crate was built: arithmetic overflow panics in a debug build and
\* wraps in a release build.
Builds == {"debug", "release"}

\* `code.len() as u16 - 1`, wrapped.
LastLine == (((Len(code) % U16) - 1) + U16) % U16

MainInit ==
    /\ code \in Programs
    /\ line_number = 0
    /\ is_running = FALSE
    /\ interpreted = <<>>
    /\ main_status = "start"
    /\ line = <<>>
    /\ variables = EmptyMap
    /\ scope_level = 0
    /\ status = "ready"
    /\ message = <<>>
    /\ op = ""
    /\ ParseIdle
    /\ LexIdle

\* main, up to its loop: `is_running = line_number < code.len() as u16 - 1`.
MainStart ==
    /\ main_status = "start"
    /\ \E build \in Builds :
          IF Len(code) % U16 = 0 /\ build = "debug"
          THEN \* attempt to subtract with overflow
               /\ main_status' = "panic"
               /\ UNCHANGED is_running
          ELSE /\ main_status' = "loop"
               /\ is_running' = (line_number < LastLine)
    /\ UNCHANGED <<code, line_number, interpreted, interpVars, parseVars, lexVars>>

\* One turn of `while is_running`.
MainTurn ==
    /\ main_status = "loop"
    /\ is_running
    /\ IF line_number >= Len(code)
       THEN \* code[line_number as usize]: index out of bounds
            /\ main_status' = "panic"
            /\ UNCHANGED <<line_number, is_running, interpreted, interpVars>>
       ELSE LET words == capsule_words(code[line_number + 1])
                r     == interpret(words, variables)
            IN  /\ line' = words
                /\ interpreted' = Append(interpreted, line_number)
                /\ Finish(r)
                /\ op' = "interpret"
                /\ UNCHANGED scope_level
                /\ IF r.kind = "ok"
                   THEN /\ line_number' = line_number + 1
                        /\ is_running' = ~ (line_number + 1 >= LastLine)
                        /\ UNCHANGED main_status
                   ELSE \* error() or a panic ended the program
                        /\ main_status' = r.kind
                        /\ UNCHANGED <<line_number, is_running>>
    /\ UNCHANGED <<code, parseVars, lexVars>>

\* The loop ends and main returns.
MainReturn ==
    /\ main_status = "loop"
    /\ ~ is_running
    /\ main_status' = "returned"
    /\ UNCHANGED <<code, line_number, is_running, interpreted, interpVars, parseVars, lexVars>>

MainNext ==
    \/ MainStart
    \/ MainTurn
    \/ MainReturn

SpecMain == MainInit /\ [][MainNext]_vars

\* C26: the main loop interprets every line of the program exactly once, in
\* increasing line order from the first line to the last, against one
\* variable map, and then returns; for an empty program it interprets
\* nothing and returns.
C26_EveryLineOnce ==
    /\ \A i \in DOMAIN interpreted : interpreted[i] = i - 1
    /\ main_status = "returned" => Len(interpreted) = Len(code)
    /\ code = <<>> => main_status # "panic"

====
